---- MODULE Spec2Model ----
(***************************************************************************)
(* Model of scripts/claude-auto.py: the ClaudeAutoWrapper prompt-answering *)
(* supervisor.                                                             *)
(*                                                                         *)
(* Text is a sequence of atoms.  An atom is a chunk of characters that the *)
(* pattern table never splits: every literal of every regular expression   *)
(* of the table is a concatenation of atoms, so a character-level          *)
(* re.search on a text built from atoms succeeds exactly when the          *)
(* atom-level search below succeeds.                                       *)
(***************************************************************************)
EXTENDS Integers, Sequences, FiniteSets, TLC

\* ------------------------------------------------------------------ bounds
\* longest buffer handed to find_response in SelSpec, in atoms
MaxSelLen == 3
\* lines read from the child in one session, over both streams
MaxLines == 2
\* patterns listed under automation.docker.patterns in one settings file
MaxConfigured == 2

\* --------------------------------------------------------------- constants
\* the debounce interval, 0.1 s, is the unit of time.  POLL_INTERVAL, 0.01 s,
\* is shorter than the unit: the sleep of line 208 is a step during which a
\* unit may pass or not.  THREAD_JOIN_TIMEOUT is not counted: a join is a
\* step that the thread's end or the timeout's end enables.
RESPONSE_DEBOUNCE_TIME == 1

\* ------------------------------------------------------------ regex search
\* the regex token ".*"
ANY == "<.*>"
\* the newline character, which "." does not match
NL == "\n"

\* re.IGNORECASE: the case-folded form of an atom
Fold(a) ==
    CASE a = "Do you want to proceed"        -> "do you want to proceed"
      [] a = "Do you want to make this edit" -> "do you want to make this edit"
      [] a = "Save file "                    -> "save file "
      [] a = "SAVE FILE "                    -> "save file "
      [] a = "Opened changes in Cursor"      -> "opened changes in cursor"
      [] a = "Bash command"                  -> "bash command"
      [] a = "Are you sure"                  -> "are you sure"
      [] a = "Continue"                      -> "continue"
      [] a = "Confirm"                       -> "confirm"
      [] a = "CONFIRM"                       -> "confirm"
      [] a = "Overwrite"                     -> "overwrite"
      [] a = "(Y/n)"                         -> "(y/n)"
      [] a = "(y/N)"                         -> "(y/n)"
      [] a = "Press"                         -> "press"
      [] a = "Enter "                        -> "enter "
      [] a = "Would you like to"             -> "would you like to"
      [] a = "Create"                        -> "create"
      [] a = "Install"                       -> "install"
      [] a = "Execute"                       -> "execute"
      [] a = "Run"                           -> "run"
      [] a = "Apply"                         -> "apply"
      [] a = "Update"                        -> "update"
      [] a = "Delete"                        -> "delete"
      [] a = "Remove"                        -> "remove"
      [] a = "Start"                         -> "start"
      [] a = " Docker"                       -> " docker"
      [] a = "Building"                      -> "building"
      [] a = "Pulling"                       -> "pulling"
      [] a = "Creating"                      -> "creating"
      [] a = "Stopping"                      -> "stopping"
      [] a = "Import"                        -> "import"
      [] a = "Activate"                      -> "activate"
      [] a = "De"                            -> "de"
      [] a = "Rebuild image"                 -> "rebuild image"
      [] OTHER                               -> a

\* does pattern pat, from its i-th token on, match text starting at position j
RECURSIVE MatchAt(_, _, _, _)
MatchAt(pat, text, i, j) ==
    IF i > Len(pat) THEN TRUE
    ELSE IF pat[i] = ANY
         THEN \E k \in j..(Len(text) + 1) :
                 /\ \A m \in j..(k - 1) : text[m] # NL
                 /\ MatchAt(pat, text, i + 1, k)
         ELSE /\ j <= Len(text)
              /\ Fold(text[j]) = Fold(pat[i])
              /\ MatchAt(pat, text, i + 1, j + 1)

\* re.search(pattern, text, re.IGNORECASE): a match starting anywhere
re_search(pat, text) ==
    \E p \in {pat}, subject \in {text} :
        \E j \in 1..(Len(subject) + 1) : MatchAt(p, subject, 1, j)

\* --------------------------------------------------------- pattern table
\* a (pattern, response) pair
Entry(p, r) == [pattern |-> p, response |-> r]

PROCEED == "Do you want to proceed"

\* the built-in list of __init__, in source order
builtin_patterns == <<
    Entry(<<PROCEED, "?">>, "yes"),
    Entry(<<"Do you want to make this edit">>, "yes"),
    Entry(<<"Save file ", "to ", "continue">>, NL),
    Entry(<<"Opened changes in Cursor">>, NL),
    Entry(<<"Bash command", ANY, PROCEED>>, "yes"),
    Entry(<<"Are you sure">>, "yes"),
    Entry(<<"Continue", "?">>, "yes"),
    Entry(<<"Confirm">>, "yes"),
    Entry(<<"Overwrite">>, "yes"),
    Entry(<<"(Y/n)">>, "Y"),
    Entry(<<"(y/N)">>, "y"),
    Entry(<<"yes/no">>, "yes"),
    Entry(<<"Press", ANY, "to ", "continue">>, NL),
    Entry(<<"Enter ", "to ", "continue">>, NL),
    Entry(<<"Would you like to">>, "yes"),
    Entry(<<"Create", ANY, "?">>, "yes"),
    Entry(<<"Install", ANY, "?">>, "yes"),
    Entry(<<"Execute", ANY, "?">>, "yes"),
    Entry(<<"Run", ANY, "?">>, "yes"),
    Entry(<<"Apply", ANY, "?">>, "yes"),
    Entry(<<"Update", ANY, "?">>, "yes"),
    Entry(<<"Delete", ANY, "?">>, "yes"),
    Entry(<<"Remove", ANY, "?">>, "yes"),
    Entry(<<"docker-compose up", ANY, PROCEED>>, "yes"),
    Entry(<<"Start", " Docker", " container", "s", ANY, PROCEED>>, "yes"),
    Entry(<<"Start", "ing", " Docker", " container", "s">>, "yes"),
    Entry(<<"Building", " Docker", " image">>, "yes"),
    Entry(<<"Pulling", " Docker", " image">>, "yes"),
    Entry(<<"Creating", " Docker", " network">>, "yes"),
    Entry(<<"Creating", " Docker", " volume">>, "yes"),
    Entry(<<"Start", "ing", " container">>, "yes"),
    Entry(<<"Stopping", " container">>, "yes"),
    Entry(<<"curl", ANY, "api/v1/", "workflow", "s", ANY, PROCEED>>, "yes"),
    Entry(<<"Import", ANY, "workflow", ANY, PROCEED>>, "yes"),
    Entry(<<"n8n", ANY, "workflow", ANY, "operation">>, "yes"),
    Entry(<<"Create", " ", "n8n", " ", "workflow">>, "yes"),
    Entry(<<"Update", " ", "n8n", " ", "workflow">>, "yes"),
    Entry(<<"Delete", " ", "n8n", " ", "workflow">>, "yes"),
    Entry(<<"Activate", " ", "n8n", " ", "workflow">>, "yes"),
    Entry(<<"De", "activate", " ", "n8n", " ", "workflow">>, "yes") >>

\* the block appended when n8n.auto_approve is set
n8n_patterns == <<
    Entry(<<"n8n", ANY, "workflow">>, "yes"),
    Entry(<<"api/v1/", "workflow", "s">>, "yes"),
    Entry(<<"workflow", ANY, "import">>, "yes"),
    Entry(<<"workflow", ANY, "create">>, "yes"),
    Entry(<<"workflow", ANY, "update">>, "yes") >>

\* ------------------------------------------------- configuration loading
\* operator-supplied docker patterns used in the bounded configurations
REBUILD == <<"Rebuild image", "?">>
SAVEANY == <<"Save file ">>

\* the value of settings.get('automation', {}).get('docker', {}): kind is
\* "missing" (the default {}), "bad" (not an object, so .get raises) or
\* "object"
Docker(e, ps) == [kind |-> "object", enabled |-> e, patterns |-> ps]
DockerMissing == [kind |-> "missing", enabled |-> FALSE, patterns |-> <<>>]
DockerBad == [kind |-> "bad", enabled |-> FALSE, patterns |-> <<>>]

\* the value of settings.get('n8n', {}), likewise
N8n(a) == [kind |-> "object", auto_approve |-> a]
N8nMissing == [kind |-> "missing", auto_approve |-> FALSE]
N8nBad == [kind |-> "bad", auto_approve |-> FALSE]

\* what a settings path holds: a file that parses to a document, no file
\* ("absent"), or a file whose open() or json.load() raises ("malformed")
Doc(d, n) == [kind |-> "doc", docker |-> d, n8n |-> n]
ABSENT == [kind |-> "absent", docker |-> DockerMissing, n8n |-> N8nMissing]
MALFORMED == [kind |-> "malformed", docker |-> DockerMissing, n8n |-> N8nMissing]

\* a docker block appended whether docker.enabled is set or not
DockerBlockAlways(doc) ==
    IF doc.docker.kind = "object"
    THEN [k \in 1..Len(doc.docker.patterns) |->
             Entry(doc.docker.patterns[k], "yes")]
    ELSE <<>>

\* lines 89-93: the docker block one document appends to patterns
DockerBlock(doc) ==
    IF doc.docker.kind = "object" /\ doc.docker.enabled
    THEN [k \in 1..Len(doc.docker.patterns) |->
             Entry(doc.docker.patterns[k], "yes")]
    ELSE <<>>

\* lines 96-104: the n8n block one document appends
N8nBlock(doc) ==
    IF doc.n8n.kind = "object" /\ doc.n8n.auto_approve
    THEN n8n_patterns
    ELSE <<>>

\* the for loop of load_docker_patterns from path i on, patterns so far acc:
\* a missing file and an exception go on to the next path, an exception
\* keeping what was appended before it was raised
RECURSIVE LoadFrom(_, _, _)
LoadFrom(files, i, acc) ==
    IF i > Len(files) THEN acc
    ELSE IF files[i].kind \in {"absent", "malformed"}
         THEN LoadFrom(files, i + 1, acc)
    ELSE IF files[i].docker.kind = "bad"
         THEN LoadFrom(files, i + 1, acc)
    ELSE IF files[i].n8n.kind = "bad"
         THEN LoadFrom(files, i + 1, acc \o DockerBlock(files[i]))
    ELSE acc \o DockerBlock(files[i]) \o N8nBlock(files[i])

\* load_docker_patterns(): files = <<home settings, working-directory settings>>
load_docker_patterns(files) == LoadFrom(files, 1, <<>>)

\* a document with both feature flags on, and one with both off
DocOn == Doc(Docker(TRUE, <<REBUILD, SAVEANY>>), N8n(TRUE))
DocOff == Doc(Docker(FALSE, <<REBUILD>>), N8n(FALSE))

\* the configurations the selector is checked under
SelSettings == { <<ABSENT, ABSENT>>, <<DocOn, ABSENT>>, <<MALFORMED, DocOff>> }

\* the atoms the selector's input buffers are built from
SelAtoms == { "SAVE FILE ", "to ", "continue", "?", "(y/N)", "Press",
              "Rebuild image", NL, "x" }

\* all sequences over S of length at most n
RECURSIVE SeqsUpTo(_, _)
SeqsUpTo(S, n) ==
    IF n = 0 THEN { <<>> }
    ELSE LET shorter == SeqsUpTo(S, n - 1)
         IN  shorter \cup { Append(t, a) : t \in shorter, a \in S }

\* the values of the docker section the loader is run on
Dockers ==
    { DockerMissing, DockerBad }
        \cup { Docker(e, ps) : e \in BOOLEAN,
                               ps \in SeqsUpTo({REBUILD, SAVEANY}, MaxConfigured) }

\* the values of the n8n section the loader is run on
N8ns == { N8nMissing, N8nBad, N8n(TRUE), N8n(FALSE) }

\* what one settings path may hold
Files == { ABSENT, MALFORMED } \cup { Doc(d, n) : d \in Dockers, n \in N8ns }

\* the two settings paths of lines 79-82, home first
LoadSettings == Files \X Files

\* the buffers find_response is called on once the loader has run: one that
\* a configured pattern matches, one that a built-in pattern matches, and
\* one that nothing matches
LoadTexts == { <<"Rebuild image", "?">>, <<"SAVE FILE ", "to ", "continue">>, <<"x">> }

\* ------------------------------------------------------------------ state
\* the child's two output streams
Streams == {"stdout", "stderr"}

\* the lines the child writes: on stdout a prompt, which matches "Save file
\* to continue", and on stderr a diagnostic, which matches no pattern
NOISE == <<"x", NL>>
ASK_SAVE == <<"SAVE FILE ", "to ", "continue", NL>>
Output(s) == IF s = "stdout" THEN ASK_SAVE ELSE NOISE

\* the exit codes the child may end with
ExitCodes == {0, 2}
\* process.returncode while the child runs
NoCode == -1000

\* the argument lists run_claude may be given
ArgKinds == {"valid", "empty", "nonstring"}

VARIABLES
    settings,         \* the two settings files read by __init__
    docker_patterns,  \* self.docker_patterns
    sel_pc,           \* find_response called on its own: "call" / "done" / "idle"
    text,             \* its argument
    result,           \* its return value
    args,             \* the kind of argument list given to run_claude
    pc,               \* the statement run_claude is at
    child,            \* "none" / "running" / "exited"
    returncode,       \* the child's exit code, NoCode while it runs
    stdin_ok,         \* the child still reads its stdin
    stdin,            \* the write attempts on process.stdin, in order
    nread,            \* per stream: the lines read from the child
    pump,             \* per stream: the pump thread, "idle" / "reading" / "closed"
    output_queue,     \* output_queue
    buffer,           \* buffer, as the lines concatenated into it
    since_response,   \* time.time() - last_response_time, capped
    terminated,       \* process.terminate() was called
    exit_code,        \* what run_claude returned, NoCode before
    since_write,      \* the time since the last write that reached stdin, capped
    rapid,            \* a write reached stdin within the debounce interval of the one before
    since_arrival,    \* the time since a line was last queued, capped
    spaced,           \* every line was queued more than the debounce interval after the one before
    cancelled         \* an interrupt was delivered while the loop was running

sel_vars == << settings, docker_patterns, sel_pc, text, result >>

run_vars == << args, pc, child, returncode, stdin_ok, stdin, nread,
               pump, output_queue, buffer, since_response,
               terminated, exit_code, since_write, rapid, since_arrival,
               spaced, cancelled >>

vars == << sel_vars, run_vars >>

\* self.response_patterns (lines 31-74)
response_patterns == builtin_patterns \o docker_patterns

\* ------------------------------------------------------------- the selector
\* find_response where the last matching entry wins
RECURSIVE FindLastFrom(_, _, _)
FindLastFrom(table, t, i) ==
    IF i = 0 THEN "yes"
    ELSE IF re_search(table[i].pattern, t) THEN table[i].response
    ELSE FindLastFrom(table, t, i - 1)

find_response_last(t) == FindLastFrom(response_patterns, t, Len(response_patterns))

\* find_response without its default
RECURSIVE FindNoDefaultFrom(_, _, _)
FindNoDefaultFrom(table, t, i) ==
    IF i > Len(table) THEN ""
    ELSE IF re_search(table[i].pattern, t) THEN table[i].response
    ELSE FindNoDefaultFrom(table, t, i + 1)

find_response_nodefault(t) == FindNoDefaultFrom(response_patterns, t, 1)

\* the for loop of find_response (lines 135-138): from[i] is what the loop
\* returns once it has come to entry i
FindFrom(table, t) ==
    LET from[i \in 1..(Len(table) + 1)] ==
            IF i > Len(table) THEN "yes"
            ELSE IF re_search(table[i].pattern, t) THEN table[i].response
            ELSE from[i + 1]
    IN  from[1]

\* find_response(text)
find_response(t) == FindFrom(response_patterns, t)

\* ---------------------------------------------------------------- run_claude
\* a line of output: the stream it was read from, its position on that
\* stream, and its text
Line(s, k, t) == [stream |-> s, idx |-> k, text |-> t]

\* the string held by buffer
RECURSIVE Concat(_)
Concat(lines) ==
    IF lines = <<>> THEN <<>> ELSE Head(lines).text \o Concat(Tail(lines))

\* a clock one time unit later, capped at cap
Later(c, cap) == IF c < cap THEN c + 1 ELSE c

\* time.time() - last_response_time > RESPONSE_DEBOUNCE_TIME
Elapsed == since_response > RESPONSE_DEBOUNCE_TIME

\* the statements inside the inner try (lines 191-203)
InnerTry == {"drain", "write", "stamp", "clear"}
\* the statements of the while loop (lines 189-208)
Loop == InnerTry \cup {"poll", "sleep"}
\* the two joins (lines 211-212)
Joins == {"join_stdout", "join_stderr"}

\* the state before run_claude is called with arguments a, at statement p
Start(a, p) ==
    /\ args = a
    /\ pc = p
    /\ child = "none"
    /\ returncode = NoCode
    /\ stdin_ok = FALSE
    /\ stdin = <<>>
    /\ nread = [s \in Streams |-> 0]
    /\ pump = [s \in Streams |-> "idle"]
    /\ output_queue = <<>>
    /\ buffer = <<>>
    /\ since_response = RESPONSE_DEBOUNCE_TIME + 1
    /\ terminated = FALSE
    /\ exit_code = NoCode
    /\ since_write = RESPONSE_DEBOUNCE_TIME + 1
    /\ rapid = FALSE
    /\ since_arrival = RESPONSE_DEBOUNCE_TIME + 1
    /\ spaced = TRUE
    /\ cancelled = FALSE

\* run_claude not called
RunIdle == Start("valid", "idle")

\* what the child and the pumps hold
env_vars == << child, returncode, stdin_ok, nread, pump, since_arrival, spaced >>
\* the clocks
clocks == << since_response, since_write, since_arrival >>
\* what is recorded about the session
history == << since_write, rapid, cancelled >>

\* an argument check that lets every argument list through
ValidateNothing ==
    /\ pc = "validate"
    /\ pc' = "spawn"
    /\ UNCHANGED << sel_vars, args, env_vars, stdin, output_queue, buffer,
                    since_response, terminated, exit_code, history >>

\* lines 143-145: the argument check
Validate ==
    /\ pc = "validate"
    /\ IF args = "valid"
       THEN pc' = "spawn" /\ UNCHANGED exit_code
       ELSE pc' = "done" /\ exit_code' = 1
    /\ UNCHANGED << sel_vars, args, env_vars, stdin, output_queue, buffer,
                    since_response, terminated, history >>

\* lines 151-186: Popen succeeds, the pumps are started, buffer and
\* last_response_time are set
SpawnOk ==
    /\ pc = "spawn"
    /\ pc' = "poll"
    /\ child' = "running"
    /\ stdin_ok' = TRUE
    /\ pump' = [s \in Streams |-> "reading"]
    /\ buffer' = <<>>
    /\ since_response' = RESPONSE_DEBOUNCE_TIME + 1
    /\ UNCHANGED << sel_vars, args, returncode, stdin, nread, output_queue,
                    terminated, exit_code, since_arrival, spaced,
                    history >>

\* a spawn failure that ends the session with status 0
SpawnFailSilent ==
    /\ pc = "spawn"
    /\ pc' = "done"
    /\ exit_code' = 0
    /\ UNCHANGED << sel_vars, args, env_vars, stdin, output_queue, buffer,
                    since_response, terminated, history >>

\* lines 151-159: Popen raises; the exception leaves run_claude and main, and
\* the interpreter exits with status 1
SpawnFail ==
    /\ pc = "spawn"
    /\ pc' = "done"
    /\ exit_code' = 1
    /\ UNCHANGED << sel_vars, args, env_vars, stdin, output_queue, buffer,
                    since_response, terminated, history >>

\* line 189: while process.poll() is None
Poll ==
    /\ pc = "poll"
    /\ pc' = IF child = "exited" THEN "join_stdout" ELSE "drain"
    /\ UNCHANGED << sel_vars, args, env_vars, stdin, output_queue, buffer,
                    since_response, terminated, exit_code, history >>

\* Drain putting the dequeued line in front of the buffer
DrainInFront ==
    /\ pc = "drain"
    /\ IF output_queue = <<>>
       THEN /\ pc' = "sleep"
            /\ UNCHANGED << output_queue, buffer >>
       ELSE /\ buffer' = << Head(output_queue) >> \o buffer
            /\ output_queue' = Tail(output_queue)
            /\ pc' = IF find_response(Concat(buffer')) # "" /\ Elapsed
                     THEN "write" ELSE "drain"
    /\ UNCHANGED << sel_vars, args, env_vars, stdin, since_response,
                    terminated, exit_code, since_write, rapid, cancelled >>

\* Drain answering on every tick, the queue empty or not
DrainEveryTick ==
    /\ pc = "drain"
    /\ IF output_queue = <<>>
       THEN /\ pc' = IF Elapsed THEN "write" ELSE "sleep"
            /\ UNCHANGED << output_queue, buffer >>
       ELSE /\ buffer' = Append(buffer, Head(output_queue))
            /\ output_queue' = Tail(output_queue)
            /\ pc' = IF find_response(Concat(buffer')) # "" /\ Elapsed
                     THEN "write" ELSE "drain"
    /\ UNCHANGED << sel_vars, args, env_vars, stdin, since_response,
                    terminated, exit_code, since_write, rapid, cancelled >>

\* lines 192-198: while not output_queue.empty(): line = get_nowait();
\* buffer += line; response = self.find_response(buffer); the debounce test.
\* With the queue empty the inner loop ends and the tick goes to its sleep.
Drain ==
    /\ pc = "drain"
    /\ IF output_queue = <<>>
       THEN /\ pc' = "sleep"
            /\ UNCHANGED << output_queue, buffer >>
       ELSE /\ buffer' = Append(buffer, Head(output_queue))
            /\ output_queue' = Tail(output_queue)
            /\ pc' = IF find_response(Concat(buffer')) # "" /\ Elapsed
                     THEN "write" ELSE "drain"
    /\ UNCHANGED << sel_vars, args, env_vars, stdin, since_response,
                    terminated, exit_code, since_write, rapid, cancelled >>

\* lines 200-201: process.stdin.write(response + "\n"); flush().  When the
\* child no longer reads its stdin the write raises, and the bare except of
\* line 204 ends the tick.
Write ==
    /\ pc = "write"
    /\ stdin' = Append(stdin, [response |-> find_response(Concat(buffer)),
                               ok |-> stdin_ok])
    /\ IF stdin_ok
       THEN /\ pc' = "stamp"
            /\ rapid' = (rapid \/ since_write <= RESPONSE_DEBOUNCE_TIME)
            /\ since_write' = 0
       ELSE /\ pc' = "sleep"
            /\ UNCHANGED << rapid, since_write >>
    /\ UNCHANGED << sel_vars, args, env_vars, output_queue, buffer, since_response,
                    terminated, exit_code, cancelled >>

\* line 202: last_response_time = time.time()
Stamp ==
    /\ pc = "stamp"
    /\ pc' = "clear"
    /\ since_response' = 0
    /\ UNCHANGED << sel_vars, args, env_vars, stdin, output_queue, buffer,
                    terminated, exit_code, history >>

\* line 203: buffer = ""
Clear ==
    /\ pc = "clear"
    /\ pc' = "drain"
    /\ buffer' = <<>>
    /\ UNCHANGED << sel_vars, args, env_vars, stdin, output_queue, since_response,
                    terminated, exit_code, history >>

\* line 208: time.sleep(POLL_INTERVAL) returns
Sleep ==
    /\ pc = "sleep"
    /\ pc' = "poll"
    /\ UNCHANGED << sel_vars, args, env_vars, stdin, output_queue, buffer,
                    since_response, terminated, exit_code, history >>

\* a join without a timeout
NoTimeout == FALSE

\* lines 211-212, timeout=THREAD_JOIN_TIMEOUT: the timeout of a join has
\* passed; it passes whatever the thread does
TimedOut == TRUE

\* line 211: stdout_thread.join(timeout=THREAD_JOIN_TIMEOUT) returns, the
\* thread having ended or the timeout having passed
JoinStdout ==
    /\ pc = "join_stdout"
    /\ pump["stdout"] = "closed" \/ TimedOut
    /\ pc' = "join_stderr"
    /\ UNCHANGED << sel_vars, args, env_vars, stdin, output_queue, buffer,
                    since_response, terminated, exit_code, history >>

\* line 212: stderr_thread.join(timeout=THREAD_JOIN_TIMEOUT) returns
JoinStderr ==
    /\ pc = "join_stderr"
    /\ pump["stderr"] = "closed" \/ TimedOut
    /\ pc' = "return"
    /\ UNCHANGED << sel_vars, args, env_vars, stdin, output_queue, buffer,
                    since_response, terminated, exit_code, history >>

\* a return that reports success whatever the child's exit code
ReturnZero ==
    /\ pc = "return"
    /\ pc' = "done"
    /\ exit_code' = 0
    /\ UNCHANGED << sel_vars, args, env_vars, stdin, output_queue, buffer,
                    since_response, terminated, history >>

\* line 218: return process.returncode
Return ==
    /\ pc = "return"
    /\ pc' = "done"
    /\ exit_code' = returncode
    /\ UNCHANGED << sel_vars, args, env_vars, stdin, output_queue, buffer,
                    since_response, terminated, history >>

\* KeyboardInterrupt raised in the main thread: inside the inner try the
\* bare except of line 204 catches it and the loop goes on at line 208;
\* elsewhere in the outer try the handler of line 214 is entered
Interrupt ==
    /\ pc \in Loop \cup Joins
    /\ cancelled' = (cancelled \/ pc \in Loop)
    /\ pc' = IF pc \in InnerTry THEN "sleep" ELSE "cancel"
    /\ UNCHANGED << sel_vars, args, env_vars, stdin, output_queue, buffer,
                    since_response, terminated, exit_code,
                    since_write, rapid >>

\* lines 215-216: process.terminate(); return 1
Cancel ==
    /\ pc = "cancel"
    /\ pc' = "done"
    /\ terminated' = TRUE
    /\ exit_code' = 1
    /\ UNCHANGED << sel_vars, args, env_vars, stdin, output_queue, buffer,
                    since_response, history >>

\* the session is on: the child was spawned and run_claude has not returned
Live == child # "none" /\ pc # "done"

\* the child stops reading its stdin
ChildCloseStdin ==
    /\ Live
    /\ child = "running"
    /\ stdin_ok
    /\ stdin_ok' = FALSE
    /\ UNCHANGED << sel_vars, args, pc, child, returncode, stdin, nread,
                    pump, output_queue, buffer, clocks, spaced, terminated,
                    exit_code, rapid, cancelled >>

\* the child exits with code c
ChildExit(c) ==
    /\ Live
    /\ child = "running"
    /\ child' = "exited"
    /\ returncode' = c
    /\ stdin_ok' = FALSE
    /\ UNCHANGED << sel_vars, args, pc, stdin, nread, pump, output_queue, buffer,
                    clocks, spaced, terminated, exit_code, rapid, cancelled >>

\* lines 167-170: pipe.readline() returns a line the child wrote; the pump
\* queues it and echoes it
PumpRead(s) ==
    /\ Live
    /\ pump[s] = "reading"
    /\ nread["stdout"] + nread["stderr"] < MaxLines
    /\ nread' = [nread EXCEPT ![s] = @ + 1]
    /\ output_queue' = Append(output_queue, Line(s, nread[s] + 1, Output(s)))
    /\ spaced' = (spaced /\ since_arrival > RESPONSE_DEBOUNCE_TIME)
    /\ since_arrival' = 0
    /\ UNCHANGED << sel_vars, args, pc, child, returncode, stdin_ok, stdin, pump, buffer, since_response, terminated,
                    exit_code, history >>

\* lines 167, 173-174: readline returns '' at end of stream and the pump
\* closes the pipe and ends.  The stream ends after the child has exited, and
\* only once every process that inherited the pipe has closed it: a pump may
\* stay in readline for ever.
PumpEOF(s) ==
    /\ Live
    /\ child = "exited"
    /\ pump[s] = "reading"
    /\ pump' = [pump EXCEPT ![s] = "closed"]
    /\ UNCHANGED << sel_vars, args, pc, child, returncode, stdin_ok, stdin, nread, output_queue, buffer, clocks, spaced, terminated,
                    exit_code, rapid, cancelled >>

\* a pump whose exception ends run_claude
PumpErrorCrash(s) ==
    /\ Live
    /\ pump[s] = "reading"
    /\ pump' = [pump EXCEPT ![s] = "closed"]
    /\ pc' = "done"
    /\ exit_code' = 1
    /\ UNCHANGED << sel_vars, args, child, returncode, stdin_ok, stdin, nread, output_queue, buffer, clocks, spaced, terminated,
                    rapid, cancelled >>

\* lines 171-174: readline or print raises; the pump swallows the exception,
\* closes the pipe and ends
PumpError(s) ==
    /\ Live
    /\ pump[s] = "reading"
    /\ pump' = [pump EXCEPT ![s] = "closed"]
    /\ UNCHANGED << sel_vars, args, pc, child, returncode, stdin_ok, stdin, nread, output_queue, buffer, clocks, spaced, terminated,
                    exit_code, rapid, cancelled >>

\* one time unit passes while the main thread is in time.sleep; the other
\* statements of the loop take no time at this resolution
Tick ==
    /\ Live
    /\ pc = "sleep"
    /\ since_response' = Later(since_response, RESPONSE_DEBOUNCE_TIME + 1)
    /\ since_write' = Later(since_write, RESPONSE_DEBOUNCE_TIME + 1)
    /\ since_arrival' = Later(since_arrival, RESPONSE_DEBOUNCE_TIME + 1)
    /\ UNCHANGED << sel_vars, args, pc, child, returncode, stdin_ok, stdin, nread, pump, output_queue, buffer, spaced, terminated,
                    exit_code, rapid, cancelled >>

\* the configuration the sessions run under
RunSettings == { <<ABSENT, ABSENT>> }

\* main() has built the wrapper and calls run_claude
Init ==
    /\ settings \in RunSettings
    /\ docker_patterns = load_docker_patterns(settings)
    /\ sel_pc = "idle"
    /\ text = <<>>
    /\ result = "none"
    /\ \E a \in ArgKinds : Start(a, "validate")

\* a step of the main thread
Supervisor ==
    \/ Validate
    \/ SpawnOk
    \/ SpawnFail
    \/ Poll
    \/ Drain
    \/ Write
    \/ Stamp
    \/ Clear
    \/ Sleep
    \/ JoinStdout
    \/ JoinStderr
    \/ Return
    \/ Cancel

Next ==
    \/ Supervisor
    \/ Interrupt
    \/ ChildCloseStdin
    \/ \E c \in ExitCodes : ChildExit(c)
    \/ \E s \in Streams : PumpRead(s)
    \/ \E s \in Streams : PumpEOF(s)
    \/ \E s \in Streams : PumpError(s)
    \/ Tick

Spec == Init /\ [][Next]_vars

\* the main thread keeps being scheduled and time passes while it sleeps;
\* nothing makes the child or the pumps take a step
FairSpec == Spec /\ WF_vars(Supervisor) /\ SF_vars(Tick)

\* ------------------------------------------------------------ what is seen
\* the lines read from the child so far
NRead == nread["stdout"] + nread["stderr"]
\* the lines taken off output_queue so far
Dequeued == NRead - Len(output_queue)
\* the responses that reached the child's stdin
Injected == { k \in 1..Len(stdin) : stdin[k].ok }
\* a line matched by an entry of the pattern table was read from the child
PromptSeen ==
    \E s \in Streams :
        /\ nread[s] > 0
        /\ \E i \in 1..Len(response_patterns) :
              re_search(response_patterns[i].pattern, Output(s))
\* no interrupt was delivered to run_claude
NotInterrupted == ~cancelled /\ ~terminated
\* the loop runs, the child runs and reads its stdin, and no interrupt came
Answering ==
    /\ pc \in Loop
    /\ child = "running"
    /\ stdin_ok
    /\ NotInterrupted

\* the selector's inputs: a configuration and a buffer
SelInit ==
    /\ settings \in SelSettings
    /\ docker_patterns = load_docker_patterns(settings)
    /\ sel_pc = "call"
    /\ text \in SeqsUpTo(SelAtoms, MaxSelLen)
    /\ result = "none"
    /\ RunIdle

\* one call of find_response
FindResponse ==
    /\ sel_pc = "call"
    /\ result' = find_response(text)
    /\ sel_pc' = "done"
    /\ UNCHANGED << settings, docker_patterns, text, run_vars >>

SelNext == FindResponse

SelSpec == SelInit /\ [][SelNext]_vars

\* the loader's inputs: what the two settings paths hold, and the buffer
\* find_response is called on afterwards
LoadInit ==
    /\ settings \in LoadSettings
    /\ docker_patterns = <<>>
    /\ sel_pc = "load"
    /\ text \in LoadTexts
    /\ result = "none"
    /\ RunIdle

\* line 28: self.docker_patterns = self.load_docker_patterns()
LoadDockerPatterns ==
    /\ sel_pc = "load"
    /\ docker_patterns' = load_docker_patterns(settings)
    /\ sel_pc' = "call"
    /\ UNCHANGED << settings, text, result, run_vars >>

LoadNext == LoadDockerPatterns \/ FindResponse

LoadSpec == LoadInit /\ [][LoadNext]_vars

\* ------------------------------------------------------------- C5 and C6
\* the indices of the entries of the pattern table that match t
Matching(t) ==
    { i \in 1..Len(response_patterns) : re_search(response_patterns[i].pattern, t) }

Least(S) == CHOOSE i \in S : \A k \in S : i <= k

\* C5: priority law: whenever find_response has returned for a buffer that
\* two or more entries of the table match, it returned the response of the
\* matching entry with the smallest index; as the built-in entries precede
\* the configured ones, a matching built-in entry beats every configured one.
C5_PriorityLaw ==
    (sel_pc = "done" /\ Cardinality(Matching(text)) >= 2)
        => /\ result = response_patterns[Least(Matching(text))].response
           /\ (\E i \in Matching(text) : i <= Len(builtin_patterns))
                 => \E i \in Matching(text) :
                        /\ i <= Len(builtin_patterns)
                        /\ result = builtin_patterns[i].response

\* C5 witness: find_response has answered a buffer matched by a built-in
\* entry and by a later entry bound to a different response
C5_Witness ==
    /\ sel_pc = "done"
    /\ \E i, k \in Matching(text) :
          /\ i < k
          /\ response_patterns[i].response # response_patterns[k].response
          /\ result = response_patterns[i].response

\* C6: default law: whenever find_response has returned for a buffer that no
\* entry matches it returned "yes", and it never returns an empty or absent
\* response.
C6_DefaultLaw ==
    sel_pc = "done"
        => /\ (Matching(text) = {} => result = "yes")
           /\ result \notin {"", "none"}

\* C6 witness: find_response has answered a non-empty buffer no entry matches
C6_Witness ==
    /\ sel_pc = "done"
    /\ text # <<>>
    /\ Matching(text) = {}
    /\ result = "yes"

\* ------------------------------------------------------------- C1 to C4
\* C1: debounce law, first half: no response reaches the child's stdin within
\* the debounce interval of the response written before it.
C1_DebounceLaw == ~rapid

\* C2: debounce law, second half: when two prompt lines were read from the
\* child's stdout, queued more than the debounce interval apart, and the
\* debounce interval has passed since the last response, then as long as the
\* child runs, reads its stdin and nobody interrupts, two responses get
\* injected.
C2_SpacedLinesAnswered ==
    (Answering /\ spaced /\ nread["stdout"] >= 2 /\ Elapsed)
        ~> (Cardinality(Injected) >= 2 \/ ~Answering)

\* C3: a buffer kept because the debounce interval had not passed is answered
\* once the interval has passed: as long as the child runs and reads its
\* stdin and nobody interrupts, a non-empty buffer is emptied by a response,
\* whether another line arrives or not.
C3_KeptBufferAnswered ==
    (Answering /\ buffer # <<>> /\ Elapsed) ~> (buffer = <<>> \/ ~Answering)

\* C4: operator cancellation: once an interrupt has been delivered while the
\* loop was running, the loop has stopped (the handler runs or run_claude has
\* returned), and when run_claude has returned, the child was asked to
\* terminate and the exit code is 1.
C4_CancelLaw ==
    cancelled => /\ pc \in {"cancel", "done"}
                 /\ pc = "done" => (terminated /\ exit_code = 1)

\* ------------------------------------------------------------ C7 to C10
\* C7: when the child has exited by itself and no interrupt was delivered,
\* run_claude, once it has returned, has returned the child's exit code,
\* whatever was read and whatever was injected.
C7_ExitCode ==
    (pc = "done" /\ child = "exited" /\ NotInterrupted) => exit_code = returncode

\* C7 witness: run_claude has returned a non-zero exit code of the child after
\* a response was injected
C7_Witness ==
    /\ pc = "done"
    /\ child = "exited"
    /\ NotInterrupted
    /\ returncode = 2
    /\ exit_code = 2
    /\ Injected # {}

\* C8 as stated: the child exited with code 0 and no prompt appeared in its
\* output: the exit code is 0 and nothing was written to the child's stdin.
C8_NoPromptNoResponse ==
    (pc = "done" /\ child = "exited" /\ returncode = 0 /\ NotInterrupted /\ ~PromptSeen)
        => (exit_code = 0 /\ Injected = {})

\* C8 amended: the child exited with code 0 before the loop took any line of
\* its output off the queue, and no interrupt was delivered: the exit code is
\* 0 and nothing was written to the child's stdin.
C8_NoOutputNoResponse ==
    (pc = "done" /\ child = "exited" /\ returncode = 0 /\ NotInterrupted /\ Dequeued = 0)
        => (exit_code = 0 /\ Injected = {})

\* C8 witness: the child wrote a line, exited with code 0 before the loop
\* took the line off the queue, and run_claude returned 0
C8_Witness ==
    /\ pc = "done"
    /\ child = "exited"
    /\ returncode = 0
    /\ NotInterrupted
    /\ NRead > 0
    /\ Dequeued = 0
    /\ exit_code = 0
    /\ Injected = {}

\* C9: bounded shutdown: once the loop has seen the child's exit and the first
\* join is reached, run_claude returns, whether the pumps ever end or not.
C9_BoundedShutdown == (pc = "join_stdout") ~> (pc = "done")

\* C9 witness: run_claude has returned the child's exit code while both pumps
\* are still in readline
C9_Witness ==
    /\ pc = "done"
    /\ child = "exited"
    /\ exit_code = returncode
    /\ pump["stdout"] = "reading"
    /\ pump["stderr"] = "reading"

\* C10: a failed write is not retried: no write attempt follows a failed one.
C10_NoRetry ==
    \A k \in 1..Len(stdin) : ~stdin[k].ok => k = Len(stdin)

\* ------------------------------------------------------- C11, C12, C19
\* load_docker_patterns has returned
Loaded == sel_pc \in {"call", "done"}

\* a settings path that offers no usable configuration: no file, a file that
\* cannot be read or parsed, or a document with a wrongly shaped section
Unusable(f) ==
    \/ f.kind \in {"absent", "malformed"}
    \/ f.docker.kind = "bad"
    \/ f.n8n.kind = "bad"

\* C11: when each settings path is absent, unreadable or malformed (a
\* document with a non-object docker or n8n section included), the loader
\* has returned no additional entry.
C11_UnusableYieldsNothing ==
    (Loaded /\ \A i \in 1..2 : Unusable(settings[i])) => docker_patterns = <<>>

\* a document whose flags are both off, by value or by default
FlagsOff(f) ==
    /\ f.kind = "doc"
    /\ f.docker.kind # "bad"
    /\ ~f.docker.enabled
    /\ f.n8n.kind # "bad"
    /\ ~f.n8n.auto_approve

\* the first settings file found is a document whose flags are both off
Disabled(files) ==
    \E i \in 1..2 :
        /\ FlagsOff(files[i])
        /\ \A k \in 1..(i - 1) : files[k].kind = "absent"

\* the pattern table built with no settings file at either path
AbsentTable == builtin_patterns \o load_docker_patterns(<<ABSENT, ABSENT>>)

\* C12: when the first settings file found has docker.enabled and
\* n8n.auto_approve both off, whatever docker.patterns lists, the pattern
\* table is the one built with no settings file at all (the built-in
\* entries), and find_response returns what it returns under that table.
C12_DisabledIsAbsent ==
    (Loaded /\ Disabled(settings))
        => /\ response_patterns = AbsentTable
           /\ response_patterns = builtin_patterns
           /\ sel_pc = "done" => result = FindFrom(AbsentTable, text)

\* C12 witness: the loader has run on a working-directory file that lists a
\* docker pattern with both flags off, and find_response has answered a
\* buffer that pattern would match
C12_Witness ==
    /\ sel_pc = "done"
    /\ settings = <<ABSENT, Doc(Docker(FALSE, <<REBUILD>>), N8n(FALSE))>>
    /\ text = <<"Rebuild image", "?">>
    /\ docker_patterns = <<>>
    /\ result = "yes"

\* C19: first found wins: when a file exists at the home path, the loader
\* has returned what that file alone yields; the working-directory path has
\* contributed nothing.
C19_FirstFoundWins ==
    (Loaded /\ settings[1].kind # "absent")
        => docker_patterns = load_docker_patterns(<<settings[1], ABSENT>>)

\* ------------------------------------------------------------------- C13
\* C13: pump failure isolation: when one pump has ended on a read error
\* while the child runs, the loop goes on: as long as the child runs and
\* nobody interrupts, the lines the other pump has queued are taken off the
\* queue.
C13_PumpFailureIsolated ==
    (child = "running" /\ NotInterrupted /\ output_queue # <<>>
        /\ \E s \in Streams : pump[s] = "closed")
        ~> (output_queue = <<>> \/ child = "exited" \/ ~NotInterrupted)

\* C13 witness: the stderr pump has ended on an error before it read
\* anything, the child still runs, and two stdout lines have been read,
\* taken off the queue and answered
C13_Witness ==
    /\ child = "running"
    /\ NotInterrupted
    /\ pc \in Loop
    /\ pump["stderr"] = "closed"
    /\ pump["stdout"] = "reading"
    /\ nread = [stdout |-> 2, stderr |-> 0]
    /\ output_queue = <<>>
    /\ Injected # {}

\* ----------------------------------------------------------- C14 and C15
\* no child, no pump, and nothing queued, buffered or written
NothingStarted ==
    /\ child = "none"
    /\ \A s \in Streams : pump[s] = "idle" /\ nread[s] = 0
    /\ stdin = <<>>
    /\ output_queue = <<>>
    /\ buffer = <<>>
    /\ ~terminated

\* C14: argument validation: with an empty argument list or one that holds
\* a non-string, run_claude never gets past its argument check: no child and
\* no pump is started, nothing is written, and once it has returned the exit
\* code is 1.
C14_ArgumentsRejected ==
    args # "valid"
        => /\ pc \in {"idle", "validate", "done"}
           /\ NothingStarted
           /\ pc = "done" => exit_code = 1

\* C14 witness: run_claude has returned 1 for an argument list holding a
\* non-string
C14_Witness ==
    /\ args = "nonstring"
    /\ pc = "done"
    /\ exit_code = 1
    /\ NothingStarted

\* C15: spawn errors: as long as no child was started, run_claude is not in
\* its loop, no pump is started and nothing is written; when the session has
\* ended without a child, the exit code is 1.
C15_SpawnErrorFatal ==
    child = "none"
        => /\ pc \in {"idle", "validate", "spawn", "done"}
           /\ NothingStarted
           /\ pc = "done" => exit_code = 1

\* C15 witness: with valid arguments Popen has raised and the session has
\* ended with exit code 1
C15_Witness ==
    /\ args = "valid"
    /\ pc = "done"
    /\ child = "none"
    /\ exit_code = 1
    /\ NothingStarted

\* ------------------------------------------------------------------- C16
\* b is a with lines appended
Extends(b, a) == Len(b) >= Len(a) /\ SubSeq(b, 1, Len(a)) = a

\* C16: transactional clear: the buffer only grows by appended lines or is
\* reset to empty; it is reset only by the statement that follows a
\* successful write and its time stamp; and a successful write is followed,
\* in the main thread, by the time stamp and by the reset and by nothing
\* else, so that outside these statements the response timer is the time of
\* the last injection.
C16_TransactionalClear ==
    [][ /\ buffer' # buffer => (buffer' = <<>> \/ Extends(buffer', buffer))
        /\ (buffer # <<>> /\ buffer' = <<>>) => pc = "clear"
        /\ pc = "stamp" => pc' \in {"stamp", "clear"}
        /\ pc = "clear" => (pc' = "clear" \/ buffer' = <<>>)
        /\ pc' \notin {"stamp", "clear"} => since_write' = since_response'
      ]_vars

\* ------------------------------------------------------- C17, C18, C20
\* C17: drain-then-select: the loop decides to respond only once it has
\* moved every queued line into the buffer: the step that selects the
\* response to write leaves no line in the queue.
C17_DrainThenSelect ==
    [][ (pc = "drain" /\ pc' = "write") => output_queue' = <<>> ]_vars

\* lines of one stream stand in sq in the order the child wrote them
InOrder(sq) ==
    \A i, k \in 1..Len(sq) :
        (i < k /\ sq[i].stream = sq[k].stream) => sq[i].idx < sq[k].idx

\* C18: per-stream ordering: two lines of the same stream that are in the
\* buffer together, or still in the queue behind it, stand in the order the
\* child wrote them.
C18_PerStreamOrder == InOrder(buffer \o output_queue)

\* C18 witness: the first and the second line of one stream are in the
\* buffer together
C18_Witness ==
    /\ Len(buffer) = 2
    /\ buffer[1].stream = buffer[2].stream
    /\ buffer[1].idx = 1
    /\ buffer[2].idx = 2

\* C20: every write to the child's stdin is made by the write statement of
\* the loop, before any interrupt was delivered and before the child's exit
\* was seen, and the writes never outnumber the lines taken off the queue.
C20_WritesOnlyWhileRunning ==
    [][ /\ stdin' # stdin => (pc = "write" /\ NotInterrupted)
        /\ Len(stdin') <= Dequeued'
      ]_vars

====
